---- MODULE Spec2Model ----
(***************************************************************************)
(* Model of the build_solr_schema management command                       *)
(* (haystack/management/commands/build_solr_schema.py).                    *)
(*                                                                         *)
(* One behaviour of the model is one invocation of Command.handle.  The    *)
(* state holds the command's options, the attributes handle() sets on the  *)
(* command object, and the parts of the outside world the command acts on: *)
(* the files it opens, its standard streams and the reload requests it     *)
(* sends to the Solr core admin.                                           *)
(*                                                                         *)
(* Strings the code takes apart (the version string, the URL path, the     *)
(* core's instance directory) are sequences of tokens; a token is a        *)
(* one-character string, or a whole name where the code never looks inside *)
(* it.  An optional value (a missing dict key, None) is the empty tuple    *)
(* None, a present one the 1-tuple Some(v).                                *)
(***************************************************************************)
EXTENDS Integers, Sequences, FiniteSets, TLC

VARIABLES
    pc,                 \* position in Command.handle
    options,            \* the command line options
    solr_info,          \* self.solr_info
    introspect_raised,  \* system_info() raised SolrError
    template,           \* the template loaded by build_template
    context,            \* the Context built by build_context
    schema_xml,         \* the rendered schema
    target,             \* the filename handed to write_file
    fs,                 \* files the run touched: [path, written] records
    handles,            \* paths of the file objects that are open
    stdout,             \* what was printed on sys.stdout
    stderr,             \* number of lines written to sys.stderr
    hostname,           \* what getfqdn() returns on this machine
    url_path,           \* path of connection.options['URL']
    reloads,            \* requests sent to the core admin, in order
    reload_outcome,     \* how the reload request ended
    err                 \* the exception that ended handle(), if any

vars == <<pc, options, solr_info, introspect_raised, template, context,
          schema_xml, target, fs, handles, stdout, stderr, hostname,
          url_path, reloads, reload_outcome, err>>

----------------------------------------------------------------------------
(* Bounds of the model *)

MaxParts == 3       \* dot-separated parts of a version string
MaxPathLen == 5     \* tokens of the path of the connection URL

----------------------------------------------------------------------------
(* Optional values and Python truthiness *)

None == <<>>
Some(v) == <<v>>
IsSome(o) == Len(o) = 1
Get(o) == o[1]

\* bool(x) of an optional string: None and '' are false
Truthy(o) == IsSome(o) /\ Get(o) # <<>>

Min(a, b) == IF a < b THEN a ELSE b
Max(a, b) == IF a > b THEN a ELSE b

----------------------------------------------------------------------------
(* Python string operations, on sequences of tokens *)

\* s[:stop] with Python's meaning of a negative stop
SliceTo(s, stop) ==
    IF stop < 0 THEN SubSeq(s, 1, Max(Len(s) + stop, 0))
    ELSE SubSeq(s, 1, Min(stop, Len(s)))

\* s[start:] for start >= 0
SliceFrom(s, start) == SubSeq(s, Min(start, Len(s)) + 1, Len(s))

\* s.rstrip(ch)
RECURSIVE rstrip(_, _)
rstrip(s, ch) ==
    IF s # <<>> /\ s[Len(s)] = ch THEN rstrip(SubSeq(s, 1, Len(s) - 1), ch)
    ELSE s

\* s.rfind(ch): 0-based index of the last ch, -1 if there is none
rfind(s, ch) ==
    LET hits == {i \in 1..Len(s) : s[i] = ch}
    IN  IF hits = {} THEN -1
        ELSE (CHOOSE i \in hits : \A j \in hits : j <= i) - 1

\* s.split(sep): always at least one piece
RECURSIVE split(_, _)
split(s, sep) ==
    LET hits == {i \in 1..Len(s) : s[i] = sep}
    IN  IF hits = {} THEN <<s>>
        ELSE LET i == CHOOSE k \in hits : \A j \in hits : k <= j
             IN  <<SubSeq(s, 1, i - 1)>> \o split(SubSeq(s, i + 1, Len(s)), sep)

Digits == {"0", "1", "2", "3", "4", "5", "6", "7", "8", "9"}

DigitValue(c) ==
    CASE c = "0" -> 0 [] c = "1" -> 1 [] c = "2" -> 2 [] c = "3" -> 3
      [] c = "4" -> 4 [] c = "5" -> 5 [] c = "6" -> 6 [] c = "7" -> 7
      [] c = "8" -> 8 [] c = "9" -> 9

\* int(s) raises ValueError for '' and for anything that is not a number
IntOk(s) == s # <<>> /\ \A i \in 1..Len(s) : s[i] \in Digits

RECURSIVE int(_)
int(s) ==
    IF s = <<>> THEN 0
    ELSE 10 * int(SubSeq(s, 1, Len(s) - 1)) + DigitValue(s[Len(s)])

\* os.path.join(a, b) for a relative b
PathJoin(a, b) ==
    IF a = <<>> \/ a[Len(a)] = "/" THEN a \o b ELSE a \o <<"/">> \o b

----------------------------------------------------------------------------
(* The inputs of a run *)

\* parts a version string is made of: '', '5', '10'
VersionPieces == {<<>>, <<"5">>, <<"1", "0">>}

RECURSIVE JoinDots(_)
JoinDots(ps) ==
    IF Len(ps) = 1 THEN ps[1]
    ELSE ps[1] \o <<".">> \o JoinDots(Tail(ps))

\* '5', '5.10', '10.5.5', and malformed ones such as '', '5.' and '.5'
VersionStrings ==
    {JoinDots(ps) : ps \in UNION {[1..n -> VersionPieces] : n \in 1..MaxParts}}

Hosts == {"solr.example.org", "db.example.org"}

InstanceDirs == {<<"/", "core0">>, <<"/", "core0", "/">>}

Filenames == {<<>>, <<"out.xml">>}

\* the characters of a URL path: '/s/ss' is <<"/", "s", "/", "s", "s">>
PathTokens == {"/", "s"}

\* the URL has a scheme and a host, so its path is empty or starts with '/'
UrlPaths ==
    {p \in UNION {[1..n -> PathTokens] : n \in 0..MaxPathLen} :
        p = <<>> \/ p[1] = "/"}

\* solr_info['lucene'] as system_info() may report it
LuceneInfos ==
    {None, Some([version |-> None])}
        \cup {Some([version |-> Some(v)]) : v \in VersionStrings}

DirectoryInfos ==
    {None, Some([instance |-> None])}
        \cup {Some([instance |-> Some(d)]) : d \in InstanceDirs}

HostInfos == {None} \cup {Some(h) : h \in Hosts}

\* solr_info['core'] as system_info() may report it
CoreInfos ==
    {None} \cup {Some([directory |-> d, host |-> h]) :
                    d \in DirectoryInfos, h \in HostInfos}

EmptyInfo == [lucene |-> None, core |-> None]

NoError == [type |-> "", msg |-> ""]

Error(type, msg) == [type |-> type, msg |-> msg]

----------------------------------------------------------------------------
(* build_context: the running Solr version *)

DefaultVersion == <<1, 0, 0>>

\* self.solr_info['lucene']['solr-spec-version'], None for a KeyError
LookupVersion(info) ==
    IF IsSome(info.lucene) THEN Get(info.lucene).version ELSE None

\* padding that stops at two components
RECURSIVE PadVersionShort(_)
PadVersionShort(v) == IF Len(v) < 2 THEN PadVersionShort(Append(v, 0)) ELSE v

\* while len(solr_version) < 3: solr_version.append(0)
RECURSIVE PadVersion(_)
PadVersion(v) == IF Len(v) < 3 THEN PadVersion(Append(v, 0)) ELSE v

\* the try block with the KeyError swallowed: the default version goes on
ResolveVersionIgnoreKeyError(info) ==
    IF ~(IsSome(info.lucene) /\ IsSome(Get(info.lucene).version))
    THEN [raised |-> "", solr_version |-> <<1, 0, 0>>]
    ELSE LET parts == split(Get(Get(info.lucene).version), ".")
         IN  IF \E i \in 1..Len(parts) : ~IntOk(parts[i])
             THEN [raised |-> "ValueError", solr_version |-> <<1, 0, 0>>]
             ELSE [raised |-> "",
                   solr_version |->
                       PadVersion([i \in 1..Len(parts) |-> int(parts[i])])]

\* the try block with the ValueError swallowed: the default version goes on
ResolveVersionIgnoreValueError(info) ==
    IF ~(IsSome(info.lucene) /\ IsSome(Get(info.lucene).version))
    THEN [raised |-> "KeyError", solr_version |-> <<1, 0, 0>>]
    ELSE LET parts == split(Get(Get(info.lucene).version), ".")
         IN  IF \E i \in 1..Len(parts) : ~IntOk(parts[i])
             THEN [raised |-> "", solr_version |-> <<1, 0, 0>>]
             ELSE [raised |-> "",
                   solr_version |->
                       PadVersion([i \in 1..Len(parts) |-> int(parts[i])])]

\* the try block of build_context: what it raises, and solr_version after it
ResolveVersion(info) ==
    LET version_str == LookupVersion(info)
    IN  IF ~IsSome(version_str)
        THEN [raised |-> "KeyError", solr_version |-> DefaultVersion]
        ELSE LET parts == split(Get(version_str), ".")
             IN  IF \E i \in 1..Len(parts) : ~IntOk(parts[i])
                 THEN [raised |-> "ValueError", solr_version |-> DefaultVersion]
                 ELSE LET nums == [i \in 1..Len(parts) |-> int(parts[i])]
                      IN  IF Len(nums) = 0
                          THEN [raised |-> "KeyError", solr_version |-> nums]
                          ELSE [raised |-> "", solr_version |-> PadVersion(nums)]

\* 'solr_%s' % solr_version[0]: the token is identified by its number
VersionShortcut(solr_version) == solr_version[1]

SolrTemplate == "search_configuration/solr.xml"

\* t.render(c): the document is a function of the template and the context
Render(t, c) == [template |-> t, context |-> c]

----------------------------------------------------------------------------
(* handle: where the schema goes *)

\* the branches in the other order: --filename looked at first
DeliveryBranchFilenameFirst(opts) ==
    IF Truthy(opts.filename) THEN "filename"
    ELSE IF opts.commit THEN "commit"
    ELSE "stdout"

\* the if / elif / else of handle
DeliveryBranch(opts) ==
    IF opts.commit THEN "commit"
    ELSE IF Truthy(opts.filename) THEN "filename"
    ELSE "stdout"

\* a missing host read as this machine's: .get('host', getfqdn())
CoreLocationDefaultHost(info) ==
    IF /\ IsSome(info.core)
       /\ IsSome(Get(info.core).directory)
       /\ IsSome(Get(Get(info.core).directory).instance)
    THEN Some([filename |-> Get(Get(Get(info.core).directory).instance),
               solr_fqdn |-> IF IsSome(Get(info.core).host)
                             THEN Get(Get(info.core).host) ELSE hostname])
    ELSE None

\* the try block of the commit branch, None for a KeyError
CoreLocation(info) ==
    IF /\ IsSome(info.core)
       /\ IsSome(Get(info.core).directory)
       /\ IsSome(Get(Get(info.core).directory).instance)
       /\ IsSome(Get(info.core).host)
    THEN Some([filename |-> Get(Get(Get(info.core).directory).instance),
               solr_fqdn |-> Get(Get(info.core).host)])
    ELSE None

\* the host check left out
HostMismatchSkipped(solr_fqdn, fqdn) == FALSE

\* solr_fqdn != getfqdn()
HostMismatch(solr_fqdn, fqdn) == solr_fqdn # fqdn

\* os.path.join(filename, 'conf', 'schema.xml')
SchemaPath(filename) == PathJoin(PathJoin(filename, <<"conf">>), <<"schema.xml">>)

\* the core's name taken from the path as it is, trailing slashes and all
CoreNameNoStrip(path) == SliceFrom(path, rfind(path, "/") + 1)

\* core_name = url_path[url_i+1:]
CoreName(path) ==
    LET stripped == rstrip(path, "/")
        url_i == rfind(stripped, "/")
    IN  SliceFrom(stripped, url_i + 1)

\* base_path = u.path[:url_i]
BasePath(path) ==
    LET stripped == rstrip(path, "/")
        url_i == rfind(stripped, "/")
    IN  SliceTo(path, url_i)

ReloadOutcomes == {"ok", "error response", "raised"}

----------------------------------------------------------------------------
(* The state after construction: nothing has run yet *)

Init ==
    /\ pc = "handle"
    /\ options \in [solr_version : {None} \cup {Some(v) : v \in VersionStrings},
                    commit : BOOLEAN,
                    filename : {None} \cup {Some(f) : f \in Filenames}]
    /\ solr_info = EmptyInfo
    /\ introspect_raised = FALSE
    /\ template = ""
    /\ context = None
    /\ schema_xml = None
    /\ target = None
    /\ fs = {}
    /\ handles = {}
    /\ stdout = <<>>
    /\ stderr = 0
    /\ hostname \in Hosts
    /\ url_path = None
    /\ reloads = <<>>
    /\ reload_outcome = ""
    /\ err = NoError

\* an exception leaves handle()
Raise(e) == pc' = "done" /\ err' = e

----------------------------------------------------------------------------
(* Command.handle, step by step *)

\* lines 48-52: the backend of the connection must be a SolrSearchBackend
get_backend ==
    /\ pc = "handle"
    /\ \E is_solr \in BOOLEAN :
          IF is_solr
          THEN pc' = "system_info" /\ err' = err
          ELSE Raise(Error("ImproperlyConfigured", "isn't configured as a SolrEngine"))
    /\ UNCHANGED <<options, solr_info, introspect_raised, template, context,
                   schema_xml, target, fs, handles, stdout, stderr, hostname,
                   url_path, reloads, reload_outcome>>

\* lines 57-60: --solr-version replaces the version system_info() reported
OverrideVersion(info, solr_version) ==
    IF Truthy(solr_version)
    THEN [info EXCEPT !.lucene = Some([version |-> Some(Get(solr_version))])]
    ELSE info

\* lines 53-60: ask the server about itself; a SolrError leaves no info
system_info ==
    /\ pc = "system_info"
    /\ \E raised \in BOOLEAN, lucene \in LuceneInfos, core \in CoreInfos :
          LET info == IF raised THEN EmptyInfo
                      ELSE [lucene |-> lucene, core |-> core]
          IN  /\ raised => (lucene = None /\ core = None)
              /\ introspect_raised' = raised
              /\ solr_info' = OverrideVersion(info, options.solr_version)
    /\ pc' = "get_template"
    /\ UNCHANGED <<options, template, context, schema_xml, target, fs, handles,
                   stdout, stderr, hostname, url_path, reloads,
                   reload_outcome, err>>

\* line 121: build_template loads the one template there is
get_template ==
    /\ pc = "get_template"
    /\ template' = SolrTemplate
    /\ pc' = "build_context"
    /\ UNCHANGED <<options, solr_info, introspect_raised, context, schema_xml,
                   target, fs, handles, stdout, stderr, hostname, url_path,
                   reloads, reload_outcome, err>>

\* lines 89-118: the version of the running Solr, and the Context
build_context ==
    /\ pc = "build_context"
    /\ LET r == ResolveVersion(solr_info)
       IN  CASE r.raised = "KeyError" ->
                 /\ Raise(Error("CommandError", "Could not determine Solr version"))
                 /\ context' = context
             [] r.raised = "ValueError" ->
                 /\ Raise(Error("ValueError", "invalid literal for int()"))
                 /\ context' = context
             [] OTHER ->
                 /\ context' = Some([solr_version |-> r.solr_version,
                                     version_shortcut |->
                                         VersionShortcut(r.solr_version)])
                 /\ pc' = "render"
                 /\ err' = err
    /\ UNCHANGED <<options, solr_info, introspect_raised, template, schema_xml,
                   target, fs, handles, stdout, stderr, hostname, url_path,
                   reloads, reload_outcome>>

\* the major versions the template has a branch for
SupportedTiers == {5}

\* a renderer that refuses a version the template has no branch for
render_by_tier ==
    /\ pc = "render"
    /\ IF Get(context).version_shortcut \in SupportedTiers
       THEN /\ schema_xml' = Some(Render(template, Get(context)))
            /\ pc' = "deliver"
            /\ err' = err
       ELSE /\ Raise(Error("CommandError", "unsupported Solr version"))
            /\ schema_xml' = schema_xml
    /\ UNCHANGED <<options, solr_info, introspect_raised, template, context,
                   target, fs, handles, stdout, stderr, hostname, url_path,
                   reloads, reload_outcome>>

\* line 123 and line 62: schema_xml = t.render(c)
render ==
    /\ pc = "render"
    /\ schema_xml' = Some(Render(template, Get(context)))
    /\ pc' = "deliver"
    /\ UNCHANGED <<options, solr_info, introspect_raised, template, context,
                   target, fs, handles, stdout, stderr, hostname, url_path,
                   reloads, reload_outcome, err>>

\* lines 64-73: --commit-local needs the core's directory on this very host
commit_local ==
    /\ pc = "deliver"
    /\ DeliveryBranch(options) = "commit"
    /\ LET loc == CoreLocation(solr_info)
       IN  IF ~IsSome(loc)
           THEN /\ Raise(Error("CommandError", "Could not determine core's directory"))
                /\ target' = target
           ELSE IF HostMismatch(Get(loc).solr_fqdn, hostname)
                THEN /\ Raise(Error("CommandError", "Cannot use --commit-local"))
                     /\ target' = target
                ELSE /\ target' = Some(SchemaPath(Get(loc).filename))
                     /\ pc' = "open"
                     /\ err' = err
    /\ UNCHANGED <<options, solr_info, introspect_raised, template, context,
                   schema_xml, fs, handles, stdout, stderr, hostname, url_path,
                   reloads, reload_outcome>>

\* lines 84-85: --filename
to_filename ==
    /\ pc = "deliver"
    /\ DeliveryBranch(options) = "filename"
    /\ target' = options.filename
    /\ pc' = "open"
    /\ UNCHANGED <<options, solr_info, introspect_raised, template, context,
                   schema_xml, fs, handles, stdout, stderr, hostname, url_path,
                   reloads, reload_outcome, err>>

\* lines 86-87 and 125-132: a banner on stderr, the schema on stdout
print_stdout ==
    /\ pc = "deliver"
    /\ DeliveryBranch(options) = "stdout"
    /\ stderr' = stderr + 6
    /\ stdout' = Append(stdout, Get(schema_xml))
    /\ pc' = "done"
    /\ UNCHANGED <<options, solr_info, introspect_raised, template, context,
                   schema_xml, target, fs, handles, hostname, url_path,
                   reloads, reload_outcome, err>>

----------------------------------------------------------------------------
(* Command.write_file: open, write, close *)

\* the file system after open(path, 'w') and after writing so much of the schema
WithFile(files, path, written) ==
    {f \in files : f.path # path} \cup {[path |-> path, written |-> written]}

\* line 135: open(filename, 'w') creates or truncates the file
write_file_open ==
    /\ pc = "open"
    /\ \E ok \in BOOLEAN :
          IF ok
          THEN /\ fs' = WithFile(fs, Get(target), "nothing")
               /\ handles' = handles \cup {Get(target)}
               /\ pc' = "write"
               /\ err' = err
          ELSE /\ Raise(Error("IOError", "open failed"))
               /\ UNCHANGED <<fs, handles>>
    /\ UNCHANGED <<options, solr_info, introspect_raised, template, context,
                   schema_xml, target, stdout, stderr, hostname, url_path,
                   reloads, reload_outcome>>

\* line 136: schema_file.write(schema_xml); an exception leaves write_file at once
write_file_write ==
    /\ pc = "write"
    /\ \E ok \in BOOLEAN :
          IF ok
          THEN /\ fs' = WithFile(fs, Get(target), "all")
               /\ pc' = "close"
               /\ err' = err
          ELSE /\ fs' = WithFile(fs, Get(target), "part")
               /\ Raise(Error("IOError", "write failed"))
    /\ UNCHANGED <<options, solr_info, introspect_raised, template, context,
                   schema_xml, target, handles, stdout, stderr, hostname,
                   url_path, reloads, reload_outcome>>

\* where handle() goes on after write_file returned
AfterWrite(opts) == IF DeliveryBranch(opts) = "commit" THEN "reload" ELSE "done"

\* line 137: schema_file.close() releases the handle, also when the flush fails
write_file_close ==
    /\ pc = "close"
    /\ handles' = handles \ {Get(target)}
    /\ \E ok \in BOOLEAN :
          IF ok
          THEN /\ pc' = AfterWrite(options)
               /\ UNCHANGED <<fs, err>>
          ELSE /\ fs' = WithFile(fs, Get(target), "part")
               /\ Raise(Error("IOError", "close failed"))
    /\ UNCHANGED <<options, solr_info, introspect_raised, template, context,
                   schema_xml, target, stdout, stderr, hostname, url_path,
                   reloads, reload_outcome>>

----------------------------------------------------------------------------
(* The reload of the core *)

\* lines 76-82: the admin URL and the core's name, from the connection's URL
ReloadRequest(path) == [base_path |-> BasePath(path), core_name |-> CoreName(path)]

\* lines 76-83: core_admin.reload(core_name); what it returns is not looked at
reload ==
    /\ pc = "reload"
    /\ \E path \in UrlPaths, outcome \in ReloadOutcomes :
          /\ url_path' = Some(path)
          /\ reloads' = Append(reloads, ReloadRequest(path))
          /\ reload_outcome' = outcome
          /\ IF outcome = "raised"
             THEN Raise(Error("RequestException", "reload failed"))
             ELSE pc' = "done" /\ err' = err
    /\ UNCHANGED <<options, solr_info, introspect_raised, template, context,
                   schema_xml, target, fs, handles, stdout, stderr, hostname>>

----------------------------------------------------------------------------

Next ==
    \/ get_backend
    \/ system_info
    \/ get_template
    \/ build_context
    \/ render
    \/ commit_local
    \/ to_filename
    \/ print_stdout
    \/ write_file_open
    \/ write_file_write
    \/ write_file_close
    \/ reload

Spec == Init /\ [][Next]_vars

----------------------------------------------------------------------------
(* Vocabulary of the properties, defined apart from the operators above *)

Done == pc = "done"

Failed == err # NoError

\* the spec's ConfigurationError: Django's CommandError and ImproperlyConfigured
IsConfigurationError(e) == e.type \in {"CommandError", "ImproperlyConfigured"}

\* system_info() has answered (or failed) and --solr-version has been applied
Introspected ==
    pc \notin {"handle", "system_info"} /\ err.type # "ImproperlyConfigured"

\* the Deployment Executor has been reached: there is a rendered document
Rendered == IsSome(schema_xml)

HasVersionString(info) ==
    IsSome(info.lucene) /\ IsSome(Get(info.lucene).version)

HasHost(info) == IsSome(info.core) /\ IsSome(Get(info.core).host)

HasCoreDirectory(info) ==
    /\ IsSome(info.core)
    /\ IsSome(Get(info.core).directory)
    /\ IsSome(Get(Get(info.core).directory).instance)

ReportedHost(info) == Get(Get(info.core).host)

ReportedDirectory(info) == Get(Get(Get(info.core).directory).instance)

\* core_directory/conf/schema.xml, whether or not the directory ends in '/'
ConfSchemaPath(dir) == rstrip(dir, "/") \o <<"/", "conf", "/", "schema.xml">>

FileSystemUntouched == fs = {} /\ handles = {}

\* the three delivery actions, read off the outside world
PrintedToStdout == stdout # <<>>

WroteToFilename ==
    /\ Truthy(options.filename)
    /\ \E f \in fs : f.path = Get(options.filename)

WroteToConf ==
    \E f \in fs : \E d \in InstanceDirs : f.path = ConfSchemaPath(d)

DeliveryCount ==
    (IF PrintedToStdout THEN 1 ELSE 0) + (IF WroteToFilename THEN 1 ELSE 0)
        + (IF WroteToConf THEN 1 ELSE 0)

\* the numbers the parts of a version string stand for
ValidPieces == {<<"5">>, <<"1", "0">>}

PieceValue(p) == IF p = <<"5">> THEN 5 ELSE 10

\* the part sequences ps (at most n parts) that spell the string s
Spellings(s, n) ==
    {ps \in UNION {[1..k -> ValidPieces] : k \in 1..n} : JoinDots(ps) = s}

----------------------------------------------------------------------------
(* C1: in commit-local mode, when the host the server reports differs from  *)
(* this machine's hostname, no file is ever opened or written and no reload *)
(* is ever requested; the invocation ends in an error, and once the         *)
(* document has been rendered that error is a CommandError (the spec's      *)
(* ConfigurationError): the host mismatch when the core's directory is      *)
(* known too.                                                               *)
C1_HostMismatchNeverWrites ==
    (/\ options.commit
     /\ HasHost(solr_info)
     /\ ReportedHost(solr_info) # hostname)
    => /\ FileSystemUntouched
       /\ reloads = <<>>
       /\ Done => Failed
       /\ (Done /\ Rendered) => err.type = "CommandError"
       /\ (Done /\ Rendered /\ HasCoreDirectory(solr_info))
             => err = Error("CommandError", "Cannot use --commit-local")

C1_Witness ==
    /\ Done
    /\ options.commit
    /\ Rendered
    /\ HasHost(solr_info)
    /\ HasCoreDirectory(solr_info)
    /\ ReportedHost(solr_info) # hostname
    /\ err = Error("CommandError", "Cannot use --commit-local")

----------------------------------------------------------------------------
(* The URL path as the spec reads it *)

\* the segments of a path, and the last of them that is not empty
LastSegmentIndex(p) ==
    LET segs == split(p, "/")
        full == {i \in 1..Len(segs) : segs[i] # <<>>}
    IN  IF full = {} THEN 0 ELSE CHOOSE i \in full : \A j \in full : j <= i

HasSegment(p) == LastSegmentIndex(p) > 0

LastSegment(p) == split(p, "/")[LastSegmentIndex(p)]

Slashes(n) == [i \in 1..n |-> "/"]

\* base is what is left of path in front of '/' core and the trailing slashes
IsRemainder(base, core, p) ==
    \E n \in 0..Len(p) : p = base \o <<"/">> \o core \o Slashes(n)

(* C2: in commit-local mode a reload is requested only when the host        *)
(* matches and the rendered document has been written in full to            *)
(* core_directory/conf/schema.xml and the file closed; it is requested once,*)
(* for the core named by the last non-empty segment of the URL path, at the *)
(* admin base path that is the rest of the path in front of that segment;   *)
(* and a commit-local run that ends without error has requested it.         *)
C2_ReloadAfterWrite ==
    /\ reloads # <<>> =>
          /\ options.commit
          /\ HasHost(solr_info) /\ HasCoreDirectory(solr_info)
          /\ ReportedHost(solr_info) = hostname
          /\ fs = {[path |-> ConfSchemaPath(ReportedDirectory(solr_info)),
                    written |-> "all"]}
          /\ handles = {}
          /\ Rendered
          /\ Len(reloads) = 1
          /\ IsSome(url_path)
          /\ HasSegment(Get(url_path)) =>
                /\ reloads[1].core_name = LastSegment(Get(url_path))
                /\ IsRemainder(reloads[1].base_path, reloads[1].core_name,
                               Get(url_path))
    /\ (Done /\ options.commit /\ ~Failed) => Len(reloads) = 1

C2_Witness ==
    /\ Done
    /\ ~Failed
    /\ Len(reloads) = 1
    /\ url_path = Some(<<"/", "s", "/", "s", "/">>)
    /\ reloads[1] = [base_path |-> <<"/", "s">>, core_name |-> <<"s">>]
    /\ ReportedDirectory(solr_info) = <<"/", "core0", "/">>
    /\ fs = {[path |-> <<"/", "core0", "/", "conf", "/", "schema.xml">>,
              written |-> "all"]}

----------------------------------------------------------------------------
(* C3: in commit-local mode, when the server info lacks the core's          *)
(* directory or the host (as it does when system_info() failed and only     *)
(* --solr-version supplied the version), no file is opened or written and   *)
(* no reload requested; the invocation ends in an error, which once the     *)
(* document has been rendered is the CommandError "Could not determine      *)
(* core's directory".                                                       *)
C3_NoCoreInfoNoWrite ==
    (/\ options.commit
     /\ Introspected
     /\ ~(HasCoreDirectory(solr_info) /\ HasHost(solr_info)))
    => /\ FileSystemUntouched
       /\ reloads = <<>>
       /\ stdout = <<>>
       /\ Done => Failed
       /\ (Done /\ Rendered)
             => err = Error("CommandError", "Could not determine core's directory")

C3_Witness ==
    /\ Done
    /\ options.commit
    /\ introspect_raised
    /\ Truthy(options.solr_version)
    /\ Rendered
    /\ err = Error("CommandError", "Could not determine core's directory")

----------------------------------------------------------------------------
(* C4: when the introspection data holds no version string (as when         *)
(* system_info() raised SolrError, which leaves empty info and is not       *)
(* fatal) and no --solr-version was given, nothing is rendered or delivered *)
(* and the invocation ends with the CommandError "Could not determine Solr  *)
(* version".                                                                *)
C4_NoVersionFailsEarly ==
    (/\ Introspected
     /\ ~Truthy(options.solr_version)
     /\ ~HasVersionString(solr_info))
    => /\ context = None
       /\ schema_xml = None
       /\ FileSystemUntouched
       /\ stdout = <<>>
       /\ reloads = <<>>
       /\ pc \in {"get_template", "build_context", "done"}
       /\ Done => err = Error("CommandError", "Could not determine Solr version")

C4_Witness ==
    /\ Done
    /\ introspect_raised
    /\ template = SolrTemplate
    /\ ~Truthy(options.solr_version)
    /\ err = Error("CommandError", "Could not determine Solr version")

----------------------------------------------------------------------------
(* C5: the version in the context is the parse of the effective version     *)
(* string: --solr-version when it is given, whatever the server reported,   *)
(* and the reported string otherwise.  For a string "M", "M.m" or "M.m.p"   *)
(* the version is (M, m or 0, p or 0) and the shortcut is solr_M.           *)
EffectiveVersionString ==
    IF Truthy(options.solr_version) THEN options.solr_version
    ELSE IF HasVersionString(solr_info) THEN Get(solr_info.lucene).version
    ELSE None

C5_VersionIsParseOfEffectiveString ==
    /\ (Introspected /\ Truthy(options.solr_version))
          => (HasVersionString(solr_info)
              /\ Get(solr_info.lucene).version = options.solr_version)
    /\ \A ps \in UNION {[1..k -> ValidPieces] : k \in 1..3} :
          (/\ Introspected
           /\ pc \notin {"get_template", "build_context"}
           /\ EffectiveVersionString = Some(JoinDots(ps)))
          => /\ IsSome(context)
             /\ Get(context).solr_version =
                   [i \in 1..3 |-> IF i <= Len(ps) THEN PieceValue(ps[i]) ELSE 0]
             /\ Get(context).version_shortcut = PieceValue(ps[1])

C5_Witness ==
    /\ options.solr_version = Some(<<"5", ".", "1", "0">>)
    /\ introspect_raised = FALSE
    /\ IsSome(context)
    /\ Get(context).solr_version = <<5, 10, 0>>
    /\ Get(context).version_shortcut = 5

----------------------------------------------------------------------------
----------------------------------------------------------------------------
(* C7: the file object opened by write_file is closed on every way out of   *)
(* write_file: once the write is over, no handle is open.                   *)
C7_HandleAlwaysReleased ==
    pc \notin {"write", "close"} => handles = {}

----------------------------------------------------------------------------
(* C8, as claimed: at most one delivery action per invocation, exactly one  *)
(* when it succeeds, stdout when neither --filename nor --commit-local is   *)
(* given, and a run with both of them is not accepted.                      *)
C8_ExactlyOneOptionAccepted ==
    /\ DeliveryCount <= 1
    /\ (Done /\ ~Failed) => DeliveryCount = 1
    /\ (Done /\ ~Failed /\ ~options.commit /\ ~Truthy(options.filename))
          => PrintedToStdout
    /\ (options.commit /\ Truthy(options.filename))
          => (DeliveryCount = 0 /\ pc \notin {"open", "write", "close", "reload"}
              /\ (Done => Failed))

(* C8, amended: at most one delivery action per invocation, exactly one     *)
(* when it succeeds; stdout when neither option is given, the file when     *)
(* only --filename is given; and when both are given the run is accepted    *)
(* and --commit-local wins: the schema goes to the core's conf directory,   *)
(* never to the file named by --filename nor to stdout.                     *)
C8_OneDeliveryCommitWins ==
    /\ DeliveryCount <= 1
    /\ (Done /\ ~Failed) =>
          /\ DeliveryCount = 1
          /\ PrintedToStdout <=> (~options.commit /\ ~Truthy(options.filename))
          /\ WroteToFilename <=> (~options.commit /\ Truthy(options.filename))
          /\ WroteToConf <=> options.commit
          /\ PrintedToStdout => stdout = <<Get(schema_xml)>>
          /\ ~PrintedToStdout => \A f \in fs : f.written = "all"
    /\ options.commit => (~WroteToFilename /\ ~PrintedToStdout)

C8_Witness ==
    /\ Done
    /\ ~Failed
    /\ options.commit
    /\ options.filename = Some(<<"out.xml">>)
    /\ WroteToConf
    /\ Len(reloads) = 1

----------------------------------------------------------------------------
(* C9: a reload that fails makes the invocation end in a reported failure;  *)
(* the reload is requested at most once, and the schema file written        *)
(* before it stays written.                                                 *)
C9_ReloadFailureSurfaced ==
    /\ (Done /\ reload_outcome \in {"error response", "raised"}) => Failed
    /\ Len(reloads) <= 1
    /\ reloads # <<>> => \E f \in fs : f.path = Get(target) /\ f.written = "all"

----------------------------------------------------------------------------
(* C10: the default (1, 0, 0) never reaches the renderer.  Whenever a       *)
(* context exists, the server info holds a version string of numeric parts  *)
(* and the context's version has exactly those numbers at its front;        *)
(* whenever the server info holds no such string, no context is built and   *)
(* the invocation ends in an error.                                         *)
WellFormedVersionString(info) ==
    /\ HasVersionString(info)
    /\ Spellings(Get(Get(info.lucene).version), MaxParts) # {}

C10_DefaultVersionNeverRendered ==
    /\ IsSome(context) =>
          /\ WellFormedVersionString(solr_info)
          /\ \A ps \in Spellings(Get(Get(solr_info.lucene).version), MaxParts) :
                /\ Len(Get(context).solr_version) >= Len(ps)
                /\ \A i \in 1..Len(ps) :
                      Get(context).solr_version[i] = PieceValue(ps[i])
    /\ (Introspected /\ ~WellFormedVersionString(solr_info)) =>
          /\ context = None
          /\ schema_xml = None
          /\ pc \in {"get_template", "build_context", "done"}
          /\ Done => Failed

C10_Witness ==
    /\ Done
    /\ ~Truthy(options.solr_version)
    /\ IsSome(context)
    /\ Get(solr_info.lucene).version = Some(<<"1", "0", ".", "5", ".", "5">>)
    /\ Get(context).solr_version = <<10, 5, 5>>
    /\ IsSome(schema_xml)
    /\ Get(schema_xml).context.solr_version = <<10, 5, 5>>

====
